---- MODULE Spec2Model ----
\* cudacpp::Vector4<T> (include/cudacpp/Vector4.h): four public fields of one
\* element type, constructors, converting assignment, operator[] by pointer
\* offset from the first field, and toString() through sprintf into a scratch
\* buffer of fixed size.
EXTENDS Integers, Sequences, FiniteSets, TLC

VARIABLES b, c, last

vars == <<b, c, last>>

-----------------------------------------------------------------------------
\* Element values.
\*
\* A value of an arithmetic element type is the exact number
\*      (-1)^neg * (mag + fr/2)
\* where mag is a natural number written little-endian in 16-bit limbs without
\* leading zero limbs (zero is <<>>) and fr counts halves.  Exact numbers are
\* kept so that a conversion between element types is computed, never assumed.

Base == 2^16

Limb(s, i) == IF i <= Len(s) THEN s[i] ELSE 0

RECURSIVE Norm(_)
Norm(s) ==
  IF s = <<>> THEN s
  ELSE IF s[Len(s)] = 0 THEN Norm(SubSeq(s, 1, Len(s) - 1)) ELSE s

Low(s, k) == [i \in 1..k |-> Limb(s, i)]

MkVal(neg, mag, fr) ==
  [neg |-> neg /\ (Norm(mag) # <<>> \/ fr # 0), mag |-> Norm(mag), fr |-> fr]

\* two's complement of a k-limb bit pattern
Neg2c(p) ==
  [i \in 1..Len(p) |->
     IF \A j \in 1..(i - 1) : p[j] = 0 THEN (Base - p[i]) % Base
     ELSE Base - 1 - p[i]]

\* the number written as a small literal, |n| < 2^16
Lit(n) == MkVal(n < 0, <<IF n < 0 THEN -n ELSE n>>, 0)
\* n + 1/2, n >= 0
LitHalf(n) == MkVal(FALSE, <<n>>, 1)

IntMin  == MkVal(TRUE,  <<0, 32768>>, 0)
IntMax  == MkVal(FALSE, <<65535, 32767>>, 0)
UIntMax == MkVal(FALSE, <<65535, 65535>>, 0)
\* 3000000000 = 45776 * 2^16 + 24064
ThreeE9 == MkVal(FALSE, <<24064, 45776>>, 0)
\* 2^24 and 2^24 + 1: the first integer a float cannot hold is 2^24 + 1
TwoP24  == MkVal(FALSE, <<0, 256>>, 0)
TwoP24p == MkVal(FALSE, <<1, 256>>, 0)

-----------------------------------------------------------------------------
\* Element types T of Vector4<T>.  "short" and "unsigned long" stand for the
\* element types that have no formatString specialisation.

Types == {"int", "unsigned int", "float", "double", "short", "unsigned long"}

IsFloating(T) == T \in {"float", "double"}
IsSigned(T)   == T \in {"int", "short"}

\* width of an integral type in 16-bit limbs (LP64 data model)
Limbs(T) ==
  CASE T = "short" -> 1
    [] T = "int" -> 2
    [] T = "unsigned int" -> 2
    [] T = "unsigned long" -> 4

\* significand precision of a floating type, in bits
Prec(T) == IF T = "float" THEN 24 ELSE 53

\* the value an integral type holds for the number (-1)^neg * mag: reduction
\* modulo 2^width, read back as signed or unsigned
WrapInt(T, neg, mag) ==
  LET k == Limbs(T)
      p == IF neg THEN Neg2c(Low(mag, k)) ELSE Low(mag, k)
  IN  IF IsSigned(T) /\ p[k] >= Base \div 2
      THEN MkVal(TRUE, Neg2c(p), 0)
      ELSE MkVal(FALSE, p, 0)

RECURSIVE BitLen16(_)
BitLen16(n) == IF n = 0 THEN 0 ELSE 1 + BitLen16(n \div 2)

BitLen(mag) ==
  IF mag = <<>> THEN 0 ELSE 16 * (Len(mag) - 1) + BitLen16(mag[Len(mag)])

RECURSIVE AddAt(_, _, _)
AddAt(s, i, amt) ==
  LET e == Low(s, IF Len(s) > i THEN Len(s) ELSE i)
      t == e[i] + amt
  IN  IF t < Base THEN [e EXCEPT ![i] = t]
      ELSE AddAt([e EXCEPT ![i] = t - Base], i + 1, 1)

\* round to nearest, ties to even, to a significand of P bits
RoundTo(P, v) ==
  LET k == (BitLen(v.mag) + 1) - P       \* bits to drop, the half bit included
      d == k - 1                         \* bits of mag to drop
      a == d \div 16
      bb == d % 16
      top == Limb(v.mag, a + 1)
      odd == (top \div (2^bb)) % 2 = 1
      keep == [i \in 1..Len(v.mag) |->
                 IF i <= a THEN 0
                 ELSE IF i = a + 1 THEN top - (top % (2^bb)) ELSE v.mag[i]]
      t == IF bb >= 1 THEN top % (2^bb) ELSE Limb(v.mag, a)
      hb == IF bb >= 1 THEN 2^(bb - 1) ELSE Base \div 2
      nlow == IF bb >= 1 THEN a ELSE a - 1
      lowzero == v.fr = 0 /\ \A j \in 1..nlow : Limb(v.mag, j) = 0
      up == IF d = 0 THEN v.fr = 1 /\ odd
            ELSE t > hb \/ (t = hb /\ ~lowzero) \/ (t = hb /\ lowzero /\ odd)
  IN  IF k <= 0 \/ v.mag = <<>> THEN v
      ELSE MkVal(v.neg, IF up THEN AddAt(keep, a + 1, 2^bb) ELSE keep, 0)

\* v is a value of type T
Rep(T, v) ==
  IF IsFloating(T) THEN RoundTo(Prec(T), v) = v
  ELSE v.fr = 0 /\ BitLen(v.mag) <= 16 * Limbs(T) /\ WrapInt(T, v.neg, v.mag) = v

MinOf(T) ==
  IF IsSigned(T)
  THEN MkVal(TRUE, [i \in 1..Limbs(T) |-> IF i = Limbs(T) THEN Base \div 2 ELSE 0], 0)
  ELSE MkVal(FALSE, <<>>, 0)

MaxOf(T) ==
  MkVal(FALSE, [i \in 1..Limbs(T) |->
                  IF i = Limbs(T) /\ IsSigned(T) THEN Base \div 2 - 1 ELSE Base - 1], 0)

\* The implicit conversion of a value v of type T2 to type T, as the set of
\* results a build can give.  Between equal types nothing is converted.
\* Floating to integral truncates toward zero and is undefined when the
\* truncated value is out of range: builds wrap, saturate or give the most
\* negative value.
ConvSet(T2, T, v) ==
  IF T2 = T THEN {v}
  ELSE IF IsFloating(T) THEN {RoundTo(Prec(T), v)}
  ELSE IF IsFloating(T2)
       THEN LET t == MkVal(v.neg, v.mag, 0)
            IN  IF Rep(T, t) THEN {t}
                ELSE {WrapInt(T, t.neg, t.mag), MinOf(T), MaxOf(T)}
       ELSE {WrapInt(T, v.neg, v.mag)}

\* T(0), static_cast<T>(0)
Zero(T) == CHOOSE z \in ConvSet("int", T, Lit(0)) : TRUE

-----------------------------------------------------------------------------
\* printf conversions (what sprintf does with one argument).

Digit(d) ==
  CASE d = 0 -> "0" [] d = 1 -> "1" [] d = 2 -> "2" [] d = 3 -> "3"
    [] d = 4 -> "4" [] d = 5 -> "5" [] d = 6 -> "6" [] d = 7 -> "7"
    [] d = 8 -> "8" [] d = 9 -> "9"

\* long division of a limb sequence by ten, from the top limb i down, with
\* incoming remainder r: [q |-> quotient limbs 1..i, r |-> remainder]
RECURSIVE Div10(_, _, _)
Div10(s, i, r) ==
  IF i = 0 THEN [q |-> <<>>, r |-> r]
  ELSE LET t == r * Base + s[i]
           rest == Div10(s, i - 1, t % 10)
       IN  [q |-> Append(rest.q, t \div 10), r |-> rest.r]

RECURSIVE DecMag(_)
DecMag(mag) ==
  IF mag = <<>> THEN "0"
  ELSE LET dm == Div10(mag, Len(mag), 0)
           q == Norm(dm.q)
       IN  IF q = <<>> THEN Digit(dm.r) ELSE DecMag(q) \o Digit(dm.r)

Signed(v) == (IF v.neg THEN "-" ELSE "") \o DecMag(v.mag)

\* %f: fixed notation with six fractional digits (every value here has an
\* exact six-digit expansion, so no rounding of the last digit arises)
Fixed6(v) == Signed(v) \o (IF v.fr = 1 THEN ".500000" ELSE ".000000")

\* The text sprintf writes for one variadic argument of element type T under
\* the conversion specification fmt.  The argument undergoes the default
\* promotions (short to int, float to double).  "%d" reads an int: for an
\* argument wider than int, or unsigned, it reads the low 32 bits as a signed
\* int.
RenderArg(fmt, T, v) ==
  CASE fmt = "%d" -> Signed(WrapInt("int", v.neg, v.mag))
    [] fmt = "%u" -> DecMag(WrapInt("unsigned int", v.neg, v.mag).mag)
    [] fmt = "%f" -> Fixed6(v)
    [] fmt = "%lf" -> Fixed6(v)

-----------------------------------------------------------------------------
\* Bounds and input domains.

\* how many of the values listed for an element type the operations draw
\* their inputs from (and uninitialised storage its contents)
NumVals == 2

\* int and float list more values than the other element types; zero comes
\* third because every widening conversion produces it anyway
ValList(T) ==
  CASE T = "int" -> <<IntMin, Lit(1), Lit(0), IntMax>>
    [] T = "unsigned int" -> <<ThreeE9, Lit(1)>>
    [] T = "float" -> <<LitHalf(1), TwoP24, Lit(0), Lit(-2)>>
    [] T = "double" -> <<LitHalf(1), TwoP24p>>
    [] T = "short" -> <<Lit(-1), Lit(2)>>
    [] T = "unsigned long" -> <<ThreeE9, MkVal(FALSE, <<1, 0, 1>>, 0)>>
    [] OTHER -> <<>>

Vals(T) ==
  {ValList(T)[i] : i \in 1..(IF NumVals < Len(ValList(T)) THEN NumVals ELSE Len(ValList(T)))}

\* the values toString() is exercised on
FmtVals(T) ==
  CASE T = "int" -> {Lit(1), Lit(2), Lit(3), Lit(4), IntMin}
    [] T = "unsigned int" -> {Lit(1), Lit(2), ThreeE9}
    [] T = "float" -> {Lit(1), Lit(2), LitHalf(3)}
    [] T = "double" -> {Lit(1), Lit(-2), LitHalf(3)}
    [] T = "short" -> {Lit(1), Lit(-2), Lit(3)}
    [] T = "unsigned long" -> {Lit(1), Lit(2), ThreeE9}

-----------------------------------------------------------------------------
\* The object.

\* storage in which no Vector4 has been constructed yet
Raw == [T |-> "none", x |-> Lit(0), y |-> Lit(0), z |-> Lit(0), w |-> Lit(0)]

Vec(T, vx, vy, vz, vw) == [T |-> T, x |-> vx, y |-> vy, z |-> vz, w |-> vw]

Vectors(T, S) == {Vec(T, vx, vy, vz, vw) : vx \in S, vy \in S, vz \in S, vw \in S}

\* the fields in declaration order: T x; T y; T z; T w;
FieldAt(k) == <<"x", "y", "z", "w">>[k + 1]

\* offset of a field from the start of the object, in units of sizeof(T)
OffsetOf(f) == CHOOSE k \in 0..3 : FieldAt(k) = f

\* Vector4(): no field is initialised; each holds whatever the storage held
CtorDefault(T, S) == Vectors(T, S)

\* Vector4(tx, ty, tz, tw) : x(tx), y(ty), z(ty), w(tw)
Ctor4(T, tx, ty, tz, tw) == Vec(T, tx, ty, ty, tw)

\* Vector4(const Vector2<T> & rhs) : x(rhs.x), y(rhs.y), z(0), w(0)
CtorV2(T, rhs) == Vec(T, rhs.x, rhs.y, Zero(T), Zero(T))

\* (mutant) the slip of the four-argument constructor, z(rhs.y), made here
CtorV3_zFromY(T, rhs) == Vec(T, rhs.x, rhs.y, rhs.y, Zero(T))

\* Vector4(const Vector3<T> & rhs) : x(rhs.x), y(rhs.y), z(rhs.z), w(0)
CtorV3(T, rhs) == Vec(T, rhs.x, rhs.y, rhs.z, Zero(T))

\* (mutant) z initialised from rhs.y
CtorV4_zFromY(T, rhs) ==
  {Vec(T, vx, vy, vz, vw) :
     vx \in ConvSet(rhs.T, T, rhs.x), vy \in ConvSet(rhs.T, T, rhs.y),
     vz \in ConvSet(rhs.T, T, rhs.y), vw \in ConvSet(rhs.T, T, rhs.w)}

\* template <typename T2> Vector4(const Vector4<T2> & rhs)
\*   : x(rhs.x), y(rhs.y), z(rhs.z), w(rhs.w)
\* each initialiser is the implicit conversion T2 -> T.  For T2 = T overload
\* resolution picks the implicit member-wise copy constructor, with the same
\* effect.
CtorV4(T, rhs) ==
  {Vec(T, vx, vy, vz, vw) :
     vx \in ConvSet(rhs.T, T, rhs.x), vy \in ConvSet(rhs.T, T, rhs.y),
     vz \in ConvSet(rhs.T, T, rhs.z), vw \in ConvSet(rhs.T, T, rhs.w)}

\* (mutant) z = T(0) alone: w keeps what it held
AssignV2_keepW(this, rhs) ==
  [this EXCEPT !.x = rhs.x, !.y = rhs.y, !.z = Zero(this.T)]

\* operator = (const Vector2<T> & rhs): x = rhs.x; y = rhs.y; z = w = T(0)
AssignV2(this, rhs) ==
  [this EXCEPT !.x = rhs.x, !.y = rhs.y, !.z = Zero(this.T), !.w = Zero(this.T)]

\* (mutant) the statement w = T(0) left out
AssignV3_keepW(this, rhs) ==
  [this EXCEPT !.x = rhs.x, !.y = rhs.y, !.z = rhs.z]

\* operator = (const Vector3<T> & rhs): x, y, z from rhs; w = T(0)
AssignV3(this, rhs) ==
  [this EXCEPT !.x = rhs.x, !.y = rhs.y, !.z = rhs.z, !.w = Zero(this.T)]

\* template <typename T2> operator = (const Vector4<T2> & rhs):
\* x = rhs.x; y = rhs.y; z = rhs.z; w = rhs.w  (for T2 = T the implicit
\* member-wise copy assignment, with the same effect)
AssignV4(this, rhs) ==
  {[this EXCEPT !.x = vx, !.y = vy, !.z = vz, !.w = vw] :
     vx \in ConvSet(rhs.T, this.T, rhs.x), vy \in ConvSet(rhs.T, this.T, rhs.y),
     vz \in ConvSet(rhs.T, this.T, rhs.z), vw \in ConvSet(rhs.T, this.T, rhs.w)}

\* what an assignment operator returns: "return *this;" -- the receiver,
\* named by the variable that holds it
AssignReturn(recv, rhs) == recv

\* (mutant) the offset taken from y instead of x
Index_fromY(this, index) == this[FieldAt((OffsetOf("y") + index) % 4)]

\* operator [] (index): *(&x + index), the field at that offset from x
Index(this, index) == this[FieldAt(OffsetOf("x") + index)]

\* v[index] = val through the reference operator [] returns
IndexStore(this, index, val) ==
  [this EXCEPT ![FieldAt(OffsetOf("x") + index)] = val]

\* v.f = val for a named field f
FieldStore(this, f, val) == [this EXCEPT ![f] = val]

\* formatString(): the specialisations, and "%d" for every other T
formatString(T) ==
  CASE T = "int" -> "%d"
    [] T = "unsigned int" -> "%u"
    [] T = "float" -> "%f"
    [] T = "double" -> "%lf"
    [] OTHER -> "%d"

\* char buf[50]
BufSize == 50

\* the text sprintf produces for
\*   "Vector4(" + fmt + "," + fmt + "," + fmt + "," + fmt + ")", x, y, z, w
FormatText(this) ==
  LET fmt == formatString(this.T)
  IN  "Vector4(" \o RenderArg(fmt, this.T, this.x) \o "," \o
      RenderArg(fmt, this.T, this.y) \o "," \o RenderArg(fmt, this.T, this.z) \o
      "," \o RenderArg(fmt, this.T, this.w) \o ")"

\* bytes sprintf stores into buf: the text and its terminating NUL
BytesWritten(this) == Len(FormatText(this)) + 1

-----------------------------------------------------------------------------
\* The record of the last operation: its name, its source operand, index,
\* value written or read (for an assignment from a Vector2 or Vector3: the
\* receiver's w before it), result, bytes stored by sprintf, and the receiver
\* as it was when the operation began (for indexed access and toString()).

Rec(op, src, idx, val, ret, pre) ==
  [op |-> op, src |-> src, idx |-> idx, val |-> val, ret |-> ret,
   bytes |-> 0, pre |-> pre]

NoOp == Rec("none", <<>>, -1, Lit(0), "", Raw)

Running == last.op # "abort"
Unmade  == Running /\ b.T = "none"
Live    == Running /\ b.T # "none"

Vector2s(T) == {[x |-> p, y |-> q] : p \in Vals(T), q \in Vals(T)}
Vector3s(T) == {[x |-> p, y |-> q, z |-> r] : p \in Vals(T), q \in Vals(T), r \in Vals(T)}
Vector4s(T) == Vectors(T, Vals(T))

Init == b = Raw /\ c = Raw /\ last = NoOp

-----------------------------------------------------------------------------
\* Construction of the object b (once, in raw storage).

DoCtorDefault(v) ==
  /\ Unmade
  /\ b' = v
  /\ last' = Rec("Vector4()", <<>>, -1, Lit(0), "", Raw)
  /\ UNCHANGED c

DoCtor4(T, tx, ty, tz, tw) ==
  /\ Unmade
  /\ b' = Ctor4(T, tx, ty, tz, tw)
  /\ last' = Rec("Vector4(tx,ty,tz,tw)", <<tx, ty, tz, tw>>, -1, Lit(0), "", Raw)
  /\ UNCHANGED c

DoCtorV2(T, rhs) ==
  /\ Unmade
  /\ b' = CtorV2(T, rhs)
  /\ last' = Rec("Vector4(Vector2)", rhs, -1, Lit(0), "", Raw)
  /\ UNCHANGED c

DoCtorV3(T, rhs) ==
  /\ Unmade
  /\ b' = CtorV3(T, rhs)
  /\ last' = Rec("Vector4(Vector3)", rhs, -1, Lit(0), "", Raw)
  /\ UNCHANGED c

DoCtorV4(T, rhs) ==
  /\ Unmade
  /\ b' \in CtorV4(T, rhs)
  /\ last' = Rec("Vector4(Vector4<T2>)", rhs, -1, Lit(0), "", Raw)
  /\ UNCHANGED c

-----------------------------------------------------------------------------
\* Assignment to b.

DoAssignV2(rhs) ==
  /\ Live
  /\ b' = AssignV2(b, rhs)
  /\ last' = Rec("=(Vector2)", rhs, -1, b.w, AssignReturn("b", "rhs"), Raw)
  /\ UNCHANGED c

DoAssignV3(rhs) ==
  /\ Live
  /\ b' = AssignV3(b, rhs)
  /\ last' = Rec("=(Vector3)", rhs, -1, b.w, AssignReturn("b", "rhs"), Raw)
  /\ UNCHANGED c

DoAssignV4(rhs) ==
  /\ Live
  /\ b' \in AssignV4(b, rhs)
  /\ last' = Rec("=(Vector4<T2>)", rhs, -1, Lit(0), AssignReturn("b", "rhs"), Raw)
  /\ UNCHANGED c

\* b = b: the source operand is the receiver itself
DoAssignSelf ==
  /\ Live
  /\ b' \in AssignV4(b, b)
  /\ last' = Rec("=(self)", b, -1, Lit(0), AssignReturn("b", "b"), Raw)
  /\ UNCHANGED c

-----------------------------------------------------------------------------
\* Field and indexed access.  Indices are 0..3: any other index is outside the
\* object, which the contract of operator [] leaves to the caller.

DoIndexWrite(i, val) ==
  /\ Live
  /\ b' = IndexStore(b, i, val)
  /\ last' = Rec("v[i]=", <<>>, i, val, "", b)
  /\ UNCHANGED c

DoFieldWrite(f, val) ==
  /\ Live
  /\ b' = FieldStore(b, f, val)
  /\ last' = Rec("v.f=", <<>>, -1, val, f, Raw)
  /\ UNCHANGED c

\* both overloads have the body *(&x + index); ov names the one called
DoIndexRead(i, ov) ==
  /\ Live
  /\ last' = Rec("v[i]", <<>>, i, Index(b, i), ov, b)
  /\ UNCHANGED <<b, c>>

-----------------------------------------------------------------------------
\* toString().  sprintf stores BytesWritten(b) bytes into buf[BufSize].  When
\* they fit, the text is returned and nothing else is touched.  When they do
\* not, sprintf writes past the end of buf, which is undefined: the bytes that
\* follow buf are overwritten with the rest of the text.  A build then either
\* ends the program (stack check, bad return address) or returns the text; and
\* buf being a local of an inline function, the storage that follows it can be
\* the object itself, whose first k fields then hold text bytes.
\* The record keeps the arguments of the four-argument constructor when
\* toString() is the first call on the object it made.

\* the value a field holds once text bytes have been stored over it
TextBytes(T) == ValList(T)[1]

\* the object with its first k fields overwritten
Overrun(this, k) ==
  [this EXCEPT !.x = IF OffsetOf("x") < k THEN TextBytes(this.T) ELSE @,
               !.y = IF OffsetOf("y") < k THEN TextBytes(this.T) ELSE @,
               !.z = IF OffsetOf("z") < k THEN TextBytes(this.T) ELSE @,
               !.w = IF OffsetOf("w") < k THEN TextBytes(this.T) ELSE @]

ToStringRec(op, ret) ==
  [Rec(op, IF last.op = "Vector4(tx,ty,tz,tw)" THEN last.src ELSE <<>>,
       -1, Lit(0), ret, b) EXCEPT !.bytes = BytesWritten(b)]

DoToString ==
  /\ Live
  /\ UNCHANGED c
  /\ IF BytesWritten(b) <= BufSize
     THEN /\ b' = b
          /\ last' = ToStringRec("toString", FormatText(b))
     ELSE \/ /\ \E k \in 0..4 : b' = Overrun(b, k)
             /\ last' = ToStringRec("toString", FormatText(b))
          \/ /\ b' = b
             /\ last' = ToStringRec("abort", "")

-----------------------------------------------------------------------------
\* Spec: one object of one element type through its whole life -- any
\* constructor, then any sequence of same-type assignments, field writes,
\* indexed writes and reads, and toString().

Next ==
  \/ \E T \in Types : \E v \in CtorDefault(T, Vals(T)) : DoCtorDefault(v)
  \/ \E T \in Types : \E tx, ty, tz, tw \in Vals(T) : DoCtor4(T, tx, ty, tz, tw)
  \/ \E T \in Types : \E rhs \in Vector2s(T) : DoCtorV2(T, rhs)
  \/ \E T \in Types : \E rhs \in Vector3s(T) : DoCtorV3(T, rhs)
  \/ \E T \in Types : \E rhs \in Vector4s(T) : DoCtorV4(T, rhs)
  \/ \E rhs \in Vector2s(b.T) : DoAssignV2(rhs)
  \/ \E rhs \in Vector3s(b.T) : DoAssignV3(rhs)
  \/ \E rhs \in Vector4s(b.T) : DoAssignV4(rhs)
  \/ DoAssignSelf
  \/ \E i \in 0..3 : \E val \in Vals(b.T) : DoIndexWrite(i, val)
  \/ \E f \in {"x", "y", "z", "w"} : \E val \in Vals(b.T) : DoFieldWrite(f, val)
  \/ \E i \in 0..3 : \E ov \in {"mutable", "const"} : DoIndexRead(i, ov)
  \/ DoToString

Spec == Init /\ [][Next]_vars

\* SpecConv: construction from, and assignment of, every source shape, with
\* sources of every element type.
NextConv ==
  \/ \E T \in Types : \E v \in CtorDefault(T, Vals(T)) : DoCtorDefault(v)
  \/ \E T, T2 \in Types : \E rhs \in Vector4s(T2) : DoCtorV4(T, rhs)
  \/ \E rhs \in Vector2s(b.T) : DoAssignV2(rhs)
  \/ \E rhs \in Vector3s(b.T) : DoAssignV3(rhs)
  \/ \E T2 \in Types : \E rhs \in Vector4s(T2) : DoAssignV4(rhs)
  \/ DoAssignSelf

SpecConv == Init /\ [][NextConv]_vars

\* SpecFmt: toString() on objects made by the four-argument constructor.
NextFmt ==
  \/ \E T \in Types : \E tx, ty, tz, tw \in FmtVals(T) : DoCtor4(T, tx, ty, tz, tw)
  \/ DoToString

SpecFmt == Init /\ [][NextFmt]_vars

-----------------------------------------------------------------------------
\* SpecChain: two objects b and c of one element type, in any state, and the
\* statement  c = (b = a)  for a source a of each shape.  The inner assignment
\* runs first; the outer one assigns to c from the object that the inner
\* operator returned a reference to.

\* Vector4<T> b, c;
DoDeclare(vb, vc) ==
  /\ Unmade /\ c.T = "none"
  /\ vb.T = vc.T
  /\ b' = vb /\ c' = vc
  /\ last' = Rec("Vector4() Vector4()", <<>>, -1, Lit(0), "", Raw)

\* the object a reference returned by the inner assignment denotes: the
\* receiver after the assignment, or the source operand
Denoted(ret, recvAfter, rhs) == IF ret = "b" THEN recvAfter ELSE rhs

\* c = (b = a), a a Vector2<T>
DoChainV2(a) ==
  /\ Live /\ c.T # "none"
  /\ LET b1  == AssignV2(b, a)
         ret == AssignReturn("b", "a")
     IN  /\ b' = b1
         /\ IF ret = "b" THEN c' \in AssignV4(c, Denoted(ret, b1, a))
                         ELSE c' = AssignV2(c, a)
         /\ last' = Rec("c=(b=Vector2)", a, -1, Lit(0), AssignReturn("c", ret), Raw)

\* c = (b = a), a a Vector3<T>
DoChainV3(a) ==
  /\ Live /\ c.T # "none"
  /\ LET b1  == AssignV3(b, a)
         ret == AssignReturn("b", "a")
     IN  /\ b' = b1
         /\ IF ret = "b" THEN c' \in AssignV4(c, Denoted(ret, b1, a))
                         ELSE c' = AssignV3(c, a)
         /\ last' = Rec("c=(b=Vector3)", a, -1, Lit(0), AssignReturn("c", ret), Raw)

\* c = (b = a), a a Vector4<T>
DoChainV4(a) ==
  /\ Live /\ c.T # "none"
  /\ \E b1 \in AssignV4(b, a) :
       LET ret == AssignReturn("b", "a")
       IN  /\ b' = b1
           /\ c' \in AssignV4(c, Denoted(ret, b1, a))
           /\ last' = Rec("c=(b=Vector4)", a, -1, Lit(0), AssignReturn("c", ret), Raw)

NextChain ==
  \/ \E T \in Types : \E vb, vc \in CtorDefault(T, Vals(T)) : DoDeclare(vb, vc)
  \/ \E a \in Vector2s(b.T) : DoChainV2(a)
  \/ \E a \in Vector3s(b.T) : DoChainV3(a)
  \/ \E a \in Vector4s(b.T) : DoChainV4(a)

SpecChain == Init /\ [][NextChain]_vars

-----------------------------------------------------------------------------
\* Properties.

\* the i-th field in declaration order, by name
Named(v, i) == CASE i = 0 -> v.x [] i = 1 -> v.y [] i = 2 -> v.z [] i = 3 -> v.w

Fields(v) == <<v.x, v.y, v.z, v.w>>

\* C1: after Vector4(a,b,c,d) the fields x, y, z, w read a, b, c, d in that
\* order; in particular the third field equals the third argument.
C1_Ctor4Positional ==
  last.op = "Vector4(tx,ty,tz,tw)" => Fields(b) = last.src

C3_IndexSharesStorage ==
  /\ \A i \in 0..3 : Index(b, i) = Named(b, i)
  /\ last.op = "v[i]=" => Named(b, last.idx) = last.val
  /\ last.op = "v.f=" =>
       /\ last.ret = "x" => Index(b, 0) = last.val
       /\ last.ret = "y" => Index(b, 1) = last.val
       /\ last.ret = "z" => Index(b, 2) = last.val
       /\ last.ret = "w" => Index(b, 3) = last.val
  /\ last.op = "v[i]" => last.val = Named(b, last.idx)

C3_Witness ==
  /\ last.op = "v[i]=" /\ last.idx = 2
  /\ last.val # last.pre.z
  /\ b.z = last.val /\ b.y # b.z

\* C4: toString() on a Vector4<int> built by Vector4(a,b,c,d) returns
\* "Vector4(" a "," b "," c "," d ")" in signed decimal; for (1,2,3,4) the
\* result is "Vector4(1,2,3,4)".
C4_ToStringOfCtor4 ==
  (last.op = "toString" /\ last.pre.T = "int" /\ last.src # <<>>) =>
    /\ last.ret = "Vector4(" \o Signed(last.src[1]) \o "," \o Signed(last.src[2])
                    \o "," \o Signed(last.src[3]) \o "," \o Signed(last.src[4]) \o ")"
    /\ last.src = <<Lit(1), Lit(2), Lit(3), Lit(4)>> => last.ret = "Vector4(1,2,3,4)"

\* C5: the text toString() formats, with its terminating NUL, fits in the
\* 50-byte scratch buffer for every value of a builtin numeric element type.
C5_BufferSuffices ==
  last.op \in {"toString", "abort"} => last.bytes <= BufSize

\* C6: after c = (b = a) every field of b and of c equals the corresponding
\* field of a (of a widened, when a is a Vector2 or Vector3), and the
\* assignment returns the receiver.
C6_ChainedAssignment ==
  /\ last.op = "c=(b=Vector4)" =>
       /\ Fields(b) = Fields(last.src) /\ Fields(c) = Fields(last.src)
       /\ last.ret = "c"
  /\ last.op = "c=(b=Vector2)" =>
       /\ Fields(b) = <<last.src.x, last.src.y, Lit(0), Lit(0)>>
       /\ Fields(c) = Fields(b) /\ last.ret = "c"
  /\ last.op = "c=(b=Vector3)" =>
       /\ Fields(b) = <<last.src.x, last.src.y, last.src.z, Lit(0)>>
       /\ Fields(c) = Fields(b) /\ last.ret = "c"

C6_Witness ==
  /\ last.op = "c=(b=Vector3)"
  /\ last.src.x # last.src.y /\ last.src.z # Lit(0)
  /\ Fields(c) = <<last.src.x, last.src.y, last.src.z, Lit(0)>>

\* C7: assigning from a Vector2<T>, a Vector3<T> or a Vector4<T2> leaves the
\* receiver, whatever it held, with the fields a fresh Vector4<T> constructed
\* from the same source has (Vector2 assignment sets z and w to 0, Vector3
\* assignment sets w to 0).
C7_AssignMirrorsCtor ==
  /\ last.op = "=(Vector2)" =>
       /\ b = CtorV2(b.T, last.src)
       /\ b.z = Lit(0) /\ b.w = Lit(0)
  /\ last.op = "=(Vector3)" =>
       /\ b = CtorV3(b.T, last.src)
       /\ b.w = Lit(0)
  /\ last.op = "=(Vector4<T2>)" => b \in CtorV4(b.T, last.src)

C7_Witness ==
  /\ last.op = "=(Vector2)"
  /\ last.val # Lit(0) /\ last.src.x # last.src.y
  /\ b = CtorV2(b.T, last.src)

\* C8: constructing or assigning from a Vector4<T2> sets x, y, z, w to the
\* conversion of the source's x, y, z, w respectively; a source value that T
\* can hold (every value, when T2 = T) arrives unchanged; the source is left
\* unchanged.
C8_CrossTypeElementwise ==
  /\ last.op \in {"Vector4(Vector4<T2>)", "=(Vector4<T2>)"} =>
       \A i \in 0..3 :
         /\ Named(b, i) \in ConvSet(last.src.T, b.T, Named(last.src, i))
         /\ Rep(b.T, Named(b, i))
         /\ Rep(b.T, Named(last.src, i)) => Named(b, i) = Named(last.src, i)
         /\ last.src.T = b.T => Named(b, i) = Named(last.src, i)
  /\ last.op = "=(self)" => b = last.src

C8_Witness ==
  /\ last.op = "Vector4(Vector4<T2>)"
  /\ last.src.T = "float" /\ b.T = "double"
  /\ last.src.x = LitHalf(1) /\ last.src.y = TwoP24
  /\ Fields(b) = Fields(last.src)

\* C9: toString() renders a signed integral element type in signed decimal, an
\* unsigned integral element type in unsigned decimal (never as a negative
\* number), and float and double in floating-point notation.
Expected(T, v) ==
  IF IsFloating(T) THEN Fixed6(v)
  ELSE IF IsSigned(T) THEN Signed(v) ELSE DecMag(v.mag)

C9_FormatByType ==
  last.op = "toString" =>
    last.ret = "Vector4(" \o Expected(last.pre.T, last.pre.x) \o "," \o
               Expected(last.pre.T, last.pre.y) \o "," \o
               Expected(last.pre.T, last.pre.z) \o "," \o
               Expected(last.pre.T, last.pre.w) \o ")"

\* C10: a write through v[i] changes only the i-th field, and reads through
\* operator [] and calls of toString() change no field.
C10_Frame ==
  /\ last.op = "v[i]=" =>
       \A k \in 0..3 : k # last.idx => Named(b, k) = Named(last.pre, k)
  /\ last.op \in {"v[i]", "toString"} => b = last.pre

====
